---------------------------- MODULE Spec2Model ----------------------------
(***************************************************************************)
(* PostgresRecordProvider (src/index.ts, the class at lines 163-346): a    *)
(* collection-oriented record store over a Postgres pool.  Every collection*)
(* is a table (ID serial, _id uuid UNIQUE, json jsonb) created lazily by   *)
(* the first write.  Each pool.query is one statement, atomic at the       *)
(* engine; a handler that issues several statements is several steps, and  *)
(* the statements of concurrent calls interleave freely.                   *)
(*                                                                         *)
(* Identifiers are numbers: 0 is a falsy _id, 1..NumIds are the uuids a    *)
(* caller supplies, NumIds + n is the n-th value of uuid.v4().             *)
(***************************************************************************)
EXTENDS Integers, Sequences, FiniteSets, TLC

\* ------------------------------------------------------------------ bounds
NumClients == 2
NumIds == 1
MaxCalls == 2
MaxSeqCalls == 3
MaxStrLen == 3

\* Every caller; the two whose calls run concurrently over the whole interface;
\* the one of a sequential run.
Clients == 1..NumClients
Procs == {1, 2}
SeqProcs == {1}
Collections == {"c1", "c2"}
NewCollection == "c1"
ExplicitIds == 1..NumIds
Vals == {"x", "y"}
Users == {1, 2}
\* The lists a group or role document embeds: of users, and of role or
\* permission identifiers (one of them naming an identifier twice).
UserLists == {<<>>, <<2, 1>>}
IdLists == {<<>>, <<1>>, <<2>>, <<1, 2>>, <<1, 1>>}

VARIABLES
    provider,   \* the constructor's argument, its pool, what it threw
    faults,     \* the codes the store may reject a statement with out of turn
    tables,     \* the schema: collection -> [exists, rows, dropped]
    pc,         \* each call's position
    call,       \* each call's arguments and what it has issued
    result,     \* each finished call's outcome
    frame,      \* getUserData's locals between its statements
    nextUuid,   \* how many uuid.v4() values have been drawn
    budget      \* calls that may still start (bounds the run)

vars == <<provider, faults, tables, pc, call, result, frame, nextUuid, budget>>

\* ------------------------------------------------------------ constructor
\* A JavaScript value handed in as connectionString: its typeof (null apart) and,
\* for a string, its characters; for a number or a boolean, the value.
Chars == {1, 2, 3}
Strings == UNION {[1..n -> Chars] : n \in 0..MaxStrLen}
ConnectionValues ==
    {[type |-> "null", value |-> <<>>], [type |-> "undefined", value |-> <<>>],
     [type |-> "object", value |-> <<>>]}
    \cup {[type |-> "string", value |-> v] : v \in Strings}
    \cup {[type |-> "number", value |-> <<n>>] : n \in 0..5}
    \cup {[type |-> "boolean", value |-> <<b>>] : b \in 0..1}

ValidConnection == [type |-> "string", value |-> <<1>>]

\* The constructor with the length test its second guard lacks.
constructorRejectsEmpty(connectionString) ==
    IF connectionString.type \in {"null", "undefined"}
    THEN [connectionString |-> connectionString, pool |-> FALSE, error |-> "ArgumentError"]
    ELSE IF connectionString.type # "string" \/ connectionString.value = <<>>
    THEN [connectionString |-> connectionString, pool |-> FALSE, error |-> "ArgumentError"]
    ELSE [connectionString |-> connectionString, pool |-> TRUE, error |-> ""]

\* constructor(connectionString), lines 171-181
constructor(connectionString) ==
    IF connectionString.type \in {"null", "undefined"}
    THEN [connectionString |-> connectionString, pool |-> FALSE, error |-> "ArgumentError"]
    ELSE IF connectionString.type # "string"
    THEN [connectionString |-> connectionString, pool |-> FALSE, error |-> "ArgumentError"]
    ELSE [connectionString |-> connectionString, pool |-> TRUE, error |-> ""]

\* ------------------------------------------------------------ error codes
MissingTable == "42P01"
UniqueViolation == "23505"

\* A test that takes every rejection for a missing table.
isMissingTableErrorAnyCode(ex) == TRUE

\* A slip in the code compared: the duplicate-table code for the missing-table one.
isMissingTableErrorWrongCode(ex) == ex.code = "42P07"

isMissingTableError(ex) == ex.code = MissingTable

isAlreadyExistsError(ex) == ex.code = UniqueViolation

\* -------------------------------------------------- statements' outcomes
\* A resolved QueryResult, and a rejected query carrying the engine's code.
QOk(n, rows) == [ok |-> TRUE, code |-> "", rowCount |-> n, rows |-> rows]
QErr(code) == [ok |-> FALSE, code |-> code, rowCount |-> 0, rows |-> <<>>]

\* A handler that answers every rejection with the empty result.
emptyOnAnyError(ex) == QOk(0, <<>>)

\* A handler that rethrows whatever it is given.
emptyOnMissingTableRethrows(ex) == ex

emptyOnMissingTable(ex) ==
    IF ~isMissingTableError(ex) THEN ex
    ELSE QOk(0, <<>>)

\* promise.catch(emptyOnMissingTable): the handler sees only a rejection.
CatchEmptyOnMissingTable(q) == IF q.ok THEN q ELSE emptyOnMissingTable(q)

\* ------------------------------------------------------------- documents
KeyOrder == <<"_id", "val", "name", "members", "roles", "users", "permissions">>

\* A text written before the handler put the _id into the object.
JSONStringifyWithoutId(rec) ==
    LET keys == SelectSeq(KeyOrder, LAMBDA k : k \in DOMAIN rec /\ k # "_id")
    IN  [i \in 1..Len(keys) |-> <<keys[i], rec[keys[i]]>>]

\* JSON.stringify(record): the members of the object as a text of key/value pairs.
JSONStringify(rec) ==
    LET keys == SelectSeq(KeyOrder, LAMBDA k : k \in DOMAIN rec)
    IN  [i \in 1..Len(keys) |-> <<keys[i], rec[keys[i]]>>]

\* The jsonb column's input conversion, and pg's parse of it on the way out:
\* an object with one member per key, the last pair of a key winning.
JSONParse(text) ==
    [k \in {text[i][1] : i \in DOMAIN text} |->
        LET last == CHOOSE i \in DOMAIN text :
                       /\ text[i][1] = k
                       /\ \A j \in DOMAIN text : text[j][1] = k => j <= i
        IN  text[last][2]]

\* !record._id
LacksId(rec) == ("_id" \notin DOMAIN rec) \/ rec._id = 0

\* record._id = value
WithId(rec, id) == [k \in DOMAIN rec \cup {"_id"} |-> IF k = "_id" THEN id ELSE rec[k]]

Uuid(n) == NumIds + n

Docs == [val : Vals] \cup [_id : ExplicitIds \cup {0}, val : Vals]

\* ------------------------------------------------------------ the engine
\* A table of the schema: whether it exists, its rows in insertion order (the
\* serial ID column, which no statement reads, is the position), and whether a
\* DROP has ever removed it (a former collection, as against one never provisioned).
NoTable == [exists |-> FALSE, rows |-> <<>>, dropped |-> FALSE]

Matching(rows, id) == {i \in DOMAIN rows : rows[i]._id = id}

Jsons(rows) == [i \in DOMAIN rows |-> rows[i].json]

Stmt(q, t) == [res |-> q, tables |-> t]

\* SELECT json FROM c
ExecSelectAll(t, c) ==
    IF ~t[c].exists THEN Stmt(QErr(MissingTable), t)
    ELSE Stmt(QOk(Len(t[c].rows), Jsons(t[c].rows)), t)

\* SELECT json FROM c WHERE _id = $1
ExecSelect(t, c, id) ==
    IF ~t[c].exists THEN Stmt(QErr(MissingTable), t)
    ELSE LET hit == SelectSeq(t[c].rows, LAMBDA r : r._id = id)
         IN  Stmt(QOk(Len(hit), Jsons(hit)), t)

\* A table declared without the constraint.
ViolatesUniqueNever(rows, id) == FALSE

\* The UNIQUE constraint on _id (c__id_key).
ViolatesUnique(rows, id) == Matching(rows, id) # {}

\* INSERT INTO c (json, _id) VALUES ($1, $2)
ExecInsert(t, c, text, id) ==
    IF ~t[c].exists THEN Stmt(QErr(MissingTable), t)
    ELSE IF ViolatesUnique(t[c].rows, id) THEN Stmt(QErr(UniqueViolation), t)
    ELSE Stmt(QOk(1, <<>>),
              [t EXCEPT ![c].rows = Append(@, [_id |-> id, json |-> JSONParse(text)])])

\* The upsert written as create's plain INSERT.
ExecUpsertPlainInsert(t, c, text, id) == ExecInsert(t, c, text, id)

\* INSERT ... ON CONFLICT ON CONSTRAINT c__id_key DO UPDATE SET json = $1
ExecUpsert(t, c, text, id) ==
    IF ~t[c].exists THEN Stmt(QErr(MissingTable), t)
    ELSE IF ViolatesUnique(t[c].rows, id)
    THEN Stmt(QOk(1, <<>>),
              [t EXCEPT ![c].rows = [i \in DOMAIN @ |->
                  IF @[i]._id = id THEN [@[i] EXCEPT !.json = JSONParse(text)] ELSE @[i]]])
    ELSE Stmt(QOk(1, <<>>),
              [t EXCEPT ![c].rows = Append(@, [_id |-> id, json |-> JSONParse(text)])])

\* The plain update written as the upsert's statement.
ExecUpdateUpserting(t, c, text, id) == ExecUpsert(t, c, text, id)

\* UPDATE c SET json = $1 WHERE _id = $2
ExecUpdate(t, c, text, id) ==
    IF ~t[c].exists THEN Stmt(QErr(MissingTable), t)
    ELSE Stmt(QOk(Cardinality(Matching(t[c].rows, id)), <<>>),
              [t EXCEPT ![c].rows = [i \in DOMAIN @ |->
                  IF @[i]._id = id THEN [@[i] EXCEPT !.json = JSONParse(text)] ELSE @[i]]])

\* DELETE FROM c WHERE _id = $1
ExecDelete(t, c, id) ==
    IF ~t[c].exists THEN Stmt(QErr(MissingTable), t)
    ELSE Stmt(QOk(Cardinality(Matching(t[c].rows, id)), <<>>),
              [t EXCEPT ![c].rows = SelectSeq(@, LAMBDA r : r._id # id)])

\* A reset that empties the tables and leaves them in the schema.
ExecDropAllTruncating(t) ==
    Stmt(QOk(0, <<>>), [c \in DOMAIN t |-> [t[c] EXCEPT !.rows = <<>>]])

\* DO $$ ... DROP TABLE IF EXISTS every table of the schema ... $$
ExecDropAll(t) ==
    Stmt(QOk(0, <<>>),
         [c \in DOMAIN t |-> [exists |-> FALSE, rows |-> <<>>,
                              dropped |-> t[c].dropped \/ t[c].exists]])

\* A statement the store rejects for a reason of its own (the server shutting
\* down; a 23505 from the serial ID key, which no ON CONFLICT clause names): the
\* rejection carries that code and the schema is as it was. NoFault is the
\* statement running as written.
NoFault == ""
OtherCodes == {"57P01"}
FaultCodes == OtherCodes \cup {UniqueViolation}
Run(s, t, fault) == IF fault = NoFault THEN s ELSE Stmt(QErr(fault), t)

\* ------------------------------------------------------- calls' outcomes
\* arg is the document as the caller passed it and rec the same object after the
\* handler wrote its _id; queries, creates and swallowed record what the call has
\* issued so far (the statement of query(), CREATE TABLE, a swallowed 23505) and
\* rejected the rejections the store answered with, in order.
NoCall == [op |-> "none", c |-> "", id |-> 0, arg |-> <<>>, rec |-> <<>>, upsert |-> FALSE,
           queries |-> 0, creates |-> 0, swallowed |-> FALSE, rejected |-> <<>>]

\* The call's record of a statement the store rejected: which one, what code.
Rejected(cl, stmt, q) ==
    IF q.ok THEN cl ELSE [cl EXCEPT !.rejected = Append(@, <<stmt, q.code>>)]
NoResult == [kind |-> "none", code |-> "", value |-> <<>>]
NoFrame == [groups |-> <<>>, roles |-> <<>>]

Returned(value) == [kind |-> "ok", code |-> "", value |-> value]
NotFoundError == [kind |-> "NotFoundError", code |-> "", value |-> <<>>]
ValidationError == [kind |-> "ValidationError", code |-> "", value |-> <<>>]
\* A rejection of the store handed to the caller as it is.
Thrown(ex) == [kind |-> "raw", code |-> ex.code, value |-> <<>>]

\* getAll, lines 188-193
getAllResult(q) ==
    LET res == CatchEmptyOnMissingTable(q)
    IN  IF ~res.ok THEN Thrown(res) ELSE Returned(res.rows)

getAllOutcome(t, c) == getAllResult(ExecSelectAll(t, c).res)

\* get, lines 201-209
getResult(q) ==
    LET res == CatchEmptyOnMissingTable(q)
    IN  IF ~res.ok THEN Thrown(res)
        ELSE IF res.rowCount = 0 THEN NotFoundError
        ELSE Returned(<<res.rows[1]>>)

getOutcome(t, c, id) == getResult(ExecSelect(t, c, id).res)

\* A catch block that rethrows without looking at the code.
createCatchRethrows(ex) == Thrown(ex)

\* create's catch block, lines 225-230
createCatch(ex) == IF isAlreadyExistsError(ex) THEN ValidationError ELSE Thrown(ex)

\* What the awaited query (or its retry) makes of a write call.
writeOutcome(cl, q) ==
    IF q.ok THEN Returned(<<cl.rec>>)
    ELSE IF cl.op = "create" THEN createCatch(q)
    ELSE Thrown(q)

\* A statement built from the document as the caller passed it, keyed by the
\* call's identifier.
queryOfArgument(t, cl) ==
    IF cl.op = "create"
    THEN ExecInsert(t, cl.c, JSONStringify(cl.arg), cl.id)
    ELSE ExecUpsert(t, cl.c, JSONStringify(cl.arg), cl.id)

\* The statement a create or an upserting update closes over as query().
query(t, cl) ==
    IF cl.op = "create"
    THEN ExecInsert(t, cl.c, JSONStringify(cl.rec), cl.rec._id)
    ELSE ExecUpsert(t, cl.c, JSONStringify(cl.rec), cl.rec._id)

\* ------------------------------------------------------------ getUserData
\* json->'members' @> '"u"': the document has the array and the array holds u.
Contains(json, key, u) ==
    key \in DOMAIN json /\ \E i \in DOMAIN json[key] : json[key][i] = u

\* _id = ANY ($n)
IsAny(id, ids) == \E i \in DOMAIN ids : ids[i] = id

\* lists.reduce((prev, cur) => prev.concat(cur), [])
RECURSIVE Flatten(_)
Flatten(lists) ==
    IF lists = <<>> THEN <<>>
    ELSE Flatten(SubSeq(lists, 1, Len(lists) - 1)) \o lists[Len(lists)]

\* SELECT json->>'_id' AS id, json->>'name' AS name, json->>'roles' AS roles
\*   FROM groups WHERE json->'members' @> $1
ExecSelectGroups(t, userId) ==
    IF ~t["groups"].exists THEN Stmt(QErr(MissingTable), t)
    ELSE LET hit == SelectSeq(t["groups"].rows, LAMBDA r : Contains(r.json, "members", userId))
         IN  Stmt(QOk(Len(hit), [i \in DOMAIN hit |->
                 [id |-> hit[i].json._id, name |-> hit[i].json.name,
                  roles |-> hit[i].json.roles]]), t)

\* A WHERE clause that lets every role through.
RoleSelectedAlways(r, userId, rolesIds) == TRUE

\* SELECT json->>'name' AS role, json->>'permissions' AS permissions
\*   FROM roles WHERE json->'users' @> $1 OR _id = ANY ($2)
RoleSelected(r, userId, rolesIds) ==
    Contains(r.json, "users", userId) \/ IsAny(r._id, rolesIds)

\* The roles joined to the list of identifiers: one row per entry of the list.
ExecSelectRolesJoined(t, userId, rolesIds) ==
    IF ~t["roles"].exists THEN Stmt(QErr(MissingTable), t)
    ELSE LET hit == Flatten([i \in DOMAIN rolesIds |->
                        SelectSeq(t["roles"].rows, LAMBDA r : r._id = rolesIds[i])])
         IN  Stmt(QOk(Len(hit), [i \in DOMAIN hit |->
                 [role |-> hit[i].json.name, permissions |-> hit[i].json.permissions]]), t)

ExecSelectRoles(t, userId, rolesIds) ==
    IF ~t["roles"].exists THEN Stmt(QErr(MissingTable), t)
    ELSE LET hit == SelectSeq(t["roles"].rows, LAMBDA r : RoleSelected(r, userId, rolesIds))
         IN  Stmt(QOk(Len(hit), [i \in DOMAIN hit |->
                 [role |-> hit[i].json.name, permissions |-> hit[i].json.permissions]]), t)

\* SELECT json->>'name' AS name FROM permissions WHERE _id = ANY ($1)
ExecSelectPermissions(t, permissionIds) ==
    IF ~t["permissions"].exists THEN Stmt(QErr(MissingTable), t)
    ELSE LET hit == SelectSeq(t["permissions"].rows, LAMBDA r : IsAny(r._id, permissionIds))
         IN  Stmt(QOk(Len(hit), [i \in DOMAIN hit |-> [name |-> hit[i].json.name]]), t)

\* The object getUserData returns, lines 279-286.
UserData(groups, roles, permissions) ==
    [groups |-> [i \in DOMAIN groups |-> [_id |-> groups[i].id, name |-> groups[i].name]],
     roles |-> [i \in DOMAIN roles |-> roles[i].role],
     permissions |-> [i \in DOMAIN permissions |-> permissions[i].name]]

\* ------------------------------------------------------------------ Init
\* The provider over a schema that holds no table yet, nobody calling.
Fresh ==
    /\ provider = constructor(ValidConnection)
    /\ faults = {}
    /\ tables = [c \in Collections |-> NoTable]
    /\ pc = [p \in Clients |-> "idle"]
    /\ call = [p \in Clients |-> NoCall]
    /\ result = [p \in Clients |-> NoResult]
    /\ frame = [p \in Clients |-> NoFrame]
    /\ nextUuid = 0

Init == Fresh /\ budget = MaxCalls

CanStart(p) == pc[p] = "idle" /\ budget > 0

Finish(p, cl, out) ==
    /\ pc' = [pc EXCEPT ![p] = "done"]
    /\ call' = [call EXCEPT ![p] = cl]
    /\ result' = [result EXCEPT ![p] = out]
    /\ budget' = budget - 1

\* ---------------------------------------------------------------- actions
GetAll(p) ==
    /\ CanStart(p)
    /\ \E c \in Collections, fault \in {NoFault} \cup faults :
          LET s == Run(ExecSelectAll(tables, c), tables, fault)
          IN  Finish(p, Rejected([NoCall EXCEPT !.op = "getAll", !.c = c], "query", s.res),
                     getAllResult(s.res))
    /\ UNCHANGED <<provider, faults, tables, frame, nextUuid>>

Get(p) ==
    /\ CanStart(p)
    /\ \E c \in Collections, id \in ExplicitIds \cup {Uuid(1)}, fault \in {NoFault} \cup faults :
          LET s == Run(ExecSelect(tables, c, id), tables, fault)
          IN  Finish(p, Rejected([NoCall EXCEPT !.op = "get", !.c = c, !.id = id],
                                 "query", s.res),
                     getResult(s.res))
    /\ UNCHANGED <<provider, faults, tables, frame, nextUuid>>

\* The first await of a create or an upserting update: query() runs; a failure
\* goes to createOnMissingTable, which rethrows all but a missing table.
FirstQuery(p, cl) ==
    \E fault \in {NoFault} \cup faults :
    LET s == Run(query(tables, cl), tables, fault)
    IN  /\ tables' = s.tables
        /\ call' = [call EXCEPT ![p] = Rejected([cl EXCEPT !.queries = 1], "query", s.res)]
        /\ budget' = budget - 1
        /\ IF ~s.res.ok /\ isMissingTableError(s.res)
           THEN /\ pc' = [pc EXCEPT ![p] = "createTable"]
                /\ UNCHANGED result
           ELSE /\ pc' = [pc EXCEPT ![p] = "done"]
                /\ result' = [result EXCEPT ![p] = writeOutcome(cl, s.res)]

CreateIn(p, names) ==
    /\ CanStart(p)
    /\ \E c \in names, d \in Docs :
          LET fresh == LacksId(d)
              rec == IF fresh THEN WithId(d, Uuid(nextUuid + 1)) ELSE d
          IN  /\ nextUuid' = IF fresh THEN nextUuid + 1 ELSE nextUuid
              /\ FirstQuery(p, [NoCall EXCEPT !.op = "create", !.c = c, !.id = rec._id,
                                             !.arg = d, !.rec = rec])
    /\ UNCHANGED <<provider, faults, frame>>

Create(p) == CreateIn(p, Collections)

\* A create into the one collection every caller of the creation race writes to.
CreateNew(p) == CreateIn(p, {NewCollection})

Update(p) ==
    /\ CanStart(p)
    /\ \E c \in Collections, id \in ExplicitIds, d \in Docs, upsert \in BOOLEAN :
          LET rec == WithId(d, id)
              cl == [NoCall EXCEPT !.op = "update", !.c = c, !.id = id, !.arg = d,
                                   !.rec = rec, !.upsert = upsert]
          IN  IF upsert
              THEN FirstQuery(p, cl)
              ELSE \E fault \in {NoFault} \cup faults :
                   LET s == Run(ExecUpdate(tables, c, JSONStringify(rec), rec._id),
                                tables, fault)
                       res == CatchEmptyOnMissingTable(s.res)
                   IN  /\ tables' = s.tables
                       /\ Finish(p, Rejected(cl, "query", s.res),
                                 IF ~res.ok THEN Thrown(res)
                                 ELSE IF res.rowCount = 0 THEN NotFoundError
                                 ELSE Returned(<<rec>>))
    /\ UNCHANGED <<provider, faults, frame, nextUuid>>

\* A catch around CREATE TABLE that swallows whatever it is handed.
createTableCatchSwallowsAll(ex) == QOk(0, <<>>)

\* The catch around CREATE TABLE, lines 327-335: a 23505 (a concurrent creator got
\* there first) is swallowed, anything else is thrown on.
createTableCatch(ex) == IF ex.code = UniqueViolation THEN QOk(0, <<>>) ELSE ex

\* CREATE TABLE IF NOT EXISTS, as the engine runs it: it looks the relation up,
\* and skips when it is there ...
CreateTableBegin(p) ==
    /\ pc[p] = "createTable"
    /\ \E fault \in {NoFault} \cup faults :
          IF fault = NoFault
          THEN /\ pc' = [pc EXCEPT ![p] =
                          IF tables[call[p].c].exists THEN "retry" ELSE "creating"]
               /\ call' = [call EXCEPT ![p].creates = @ + 1]
               /\ UNCHANGED result
          ELSE LET res == createTableCatch(QErr(fault))
               IN  /\ call' = [call EXCEPT ![p] =
                                 Rejected([@ EXCEPT !.creates = @ + 1, !.swallowed = res.ok],
                                          "createTable", QErr(fault))]
                   /\ IF res.ok
                      THEN /\ pc' = [pc EXCEPT ![p] = "retry"]
                           /\ UNCHANGED result
                      ELSE /\ pc' = [pc EXCEPT ![p] = "done"]
                           /\ result' = [result EXCEPT ![p] = writeOutcome(call[p], res)]
    /\ UNCHANGED <<provider, faults, tables, frame, nextUuid, budget>>

\* A CREATE TABLE that leaves the schema holding the new table alone.
ExecCreateTableClearingSchema(t, c) ==
    IF t[c].exists THEN Stmt(QErr(UniqueViolation), t)
    ELSE Stmt(QOk(0, <<>>),
              [d \in DOMAIN t |->
                  IF d = c THEN [t[c] EXCEPT !.exists = TRUE, !.rows = <<>>] ELSE NoTable])

\* A CREATE TABLE that puts an empty table in place of the one it finds.
ExecCreateTableReplacing(t, c) ==
    Stmt(QOk(0, <<>>), [t EXCEPT ![c].exists = TRUE, ![c].rows = <<>>])

\* ... and otherwise enters it in the catalog, where a concurrent creator that got
\* there first makes it fail with 23505.
ExecCreateTable(t, c) ==
    IF t[c].exists THEN Stmt(QErr(UniqueViolation), t)
    ELSE Stmt(QOk(0, <<>>), [t EXCEPT ![c].exists = TRUE, ![c].rows = <<>>])

CreateTableCommit(p) ==
    /\ pc[p] = "creating"
    /\ \E fault \in {NoFault} \cup faults :
       LET s == Run(ExecCreateTable(tables, call[p].c), tables, fault)
           res == IF s.res.ok THEN s.res ELSE createTableCatch(s.res)
       IN  /\ tables' = s.tables
           /\ call' = [call EXCEPT ![p] =
                          Rejected([@ EXCEPT !.swallowed = ~s.res.ok /\ res.ok],
                                   "createTable", s.res)]
           /\ IF res.ok
              THEN /\ pc' = [pc EXCEPT ![p] = "retry"]
                   /\ UNCHANGED result
              ELSE /\ pc' = [pc EXCEPT ![p] = "done"]
                   /\ result' = [result EXCEPT ![p] = writeOutcome(call[p], res)]
    /\ UNCHANGED <<provider, faults, frame, nextUuid, budget>>

\* A re-issue that hands a missing table to createOnMissingTable again.
RetryProvisioningAgain(p) ==
    /\ pc[p] = "retry"
    /\ LET s == query(tables, call[p])
       IN  /\ tables' = s.tables
           /\ call' = [call EXCEPT ![p] =
                          Rejected([@ EXCEPT !.queries = @ + 1], "query", s.res)]
           /\ IF ~s.res.ok /\ isMissingTableError(s.res)
              THEN /\ pc' = [pc EXCEPT ![p] = "createTable"]
                   /\ UNCHANGED result
              ELSE /\ pc' = [pc EXCEPT ![p] = "done"]
                   /\ result' = [result EXCEPT ![p] = writeOutcome(call[p], s.res)]
    /\ UNCHANGED <<provider, faults, frame, nextUuid, budget>>

\* return query(): the statement once more, its outcome the call's.
Retry(p) ==
    /\ pc[p] = "retry"
    /\ \E fault \in {NoFault} \cup faults :
       LET s == Run(query(tables, call[p]), tables, fault)
       IN  /\ tables' = s.tables
           /\ call' = [call EXCEPT ![p] =
                          Rejected([@ EXCEPT !.queries = @ + 1], "query", s.res)]
           /\ pc' = [pc EXCEPT ![p] = "done"]
           /\ result' = [result EXCEPT ![p] = writeOutcome(call[p], s.res)]
    /\ UNCHANGED <<provider, faults, frame, nextUuid, budget>>

Delete(p) ==
    /\ CanStart(p)
    /\ \E c \in Collections, id \in ExplicitIds, fault \in {NoFault} \cup faults :
          LET s == Run(ExecDelete(tables, c, id), tables, fault)
          IN  /\ tables' = s.tables
              /\ Finish(p, Rejected([NoCall EXCEPT !.op = "delete", !.c = c, !.id = id],
                                     "query", s.res),
                        IF s.res.ok THEN Returned(<<>>) ELSE Thrown(s.res))
    /\ UNCHANGED <<provider, faults, frame, nextUuid>>

DeleteAll(p) ==
    /\ CanStart(p)
    /\ \E fault \in {NoFault} \cup faults :
       LET s == Run(ExecDropAll(tables), tables, fault)
       IN  /\ tables' = s.tables
           /\ Finish(p, Rejected([NoCall EXCEPT !.op = "deleteAll"], "query", s.res),
                     IF s.res.ok THEN Returned(<<>>) ELSE Thrown(s.res))
    /\ UNCHANGED <<provider, faults, frame, nextUuid>>

\* getUserData: three statements, each awaited before the next; a rejection of
\* any of them is the call's (no handler is attached).
GetUserData(p) ==
    /\ CanStart(p)
    /\ \E userId \in Users :
          LET s == ExecSelectGroups(tables, userId)
              cl == [NoCall EXCEPT !.op = "getUserData", !.id = userId]
          IN  /\ call' = [call EXCEPT ![p] = cl]
              /\ budget' = budget - 1
              /\ IF s.res.ok
                 THEN /\ pc' = [pc EXCEPT ![p] = "userRoles"]
                      /\ frame' = [frame EXCEPT ![p].groups = s.res.rows]
                      /\ UNCHANGED result
                 ELSE /\ pc' = [pc EXCEPT ![p] = "done"]
                      /\ result' = [result EXCEPT ![p] = Thrown(s.res)]
                      /\ UNCHANGED frame
    /\ UNCHANGED <<provider, faults, tables, nextUuid>>

UserRoles(p) ==
    /\ pc[p] = "userRoles"
    /\ LET rolesIds == Flatten([i \in DOMAIN frame[p].groups |-> frame[p].groups[i].roles])
           s == ExecSelectRoles(tables, call[p].id, rolesIds)
       IN  IF s.res.ok
           THEN /\ pc' = [pc EXCEPT ![p] = "userPermissions"]
                /\ frame' = [frame EXCEPT ![p].roles = s.res.rows]
                /\ UNCHANGED result
           ELSE /\ pc' = [pc EXCEPT ![p] = "done"]
                /\ result' = [result EXCEPT ![p] = Thrown(s.res)]
                /\ frame' = [frame EXCEPT ![p] = NoFrame]
    /\ UNCHANGED <<provider, faults, tables, call, nextUuid, budget>>

UserPermissions(p) ==
    /\ pc[p] = "userPermissions"
    /\ LET permissionIds ==
               Flatten([i \in DOMAIN frame[p].roles |-> frame[p].roles[i].permissions])
           s == ExecSelectPermissions(tables, permissionIds)
       IN  /\ pc' = [pc EXCEPT ![p] = "done"]
           /\ result' = [result EXCEPT ![p] =
                 IF s.res.ok
                 THEN Returned(<<UserData(frame[p].groups, frame[p].roles, s.res.rows)>>)
                 ELSE Thrown(s.res)]
           /\ frame' = [frame EXCEPT ![p] = NoFrame]
    /\ UNCHANGED <<provider, faults, tables, call, nextUuid, budget>>

\* The caller takes the outcome; the process is free for its next call.
Return(p) ==
    /\ pc[p] = "done"
    /\ pc' = [pc EXCEPT ![p] = "idle"]
    /\ call' = [call EXCEPT ![p] = NoCall]
    /\ result' = [result EXCEPT ![p] = NoResult]
    /\ UNCHANGED <<provider, faults, tables, frame, nextUuid, budget>>

Next ==
    \E p \in Procs :
        \/ GetAll(p)
        \/ Get(p)
        \/ Create(p)
        \/ Update(p)
        \/ CreateTableBegin(p)
        \/ CreateTableCommit(p)
        \/ Retry(p)
        \/ Delete(p)
        \/ DeleteAll(p)
        \/ Return(p)

Spec == Init /\ [][Next]_vars

\* One caller, each call finished before the next begins.
NextSeq ==
    \E p \in SeqProcs :
        \/ GetAll(p)
        \/ Get(p)
        \/ Create(p)
        \/ Update(p)
        \/ CreateTableBegin(p)
        \/ CreateTableCommit(p)
        \/ Retry(p)
        \/ Delete(p)
        \/ DeleteAll(p)
        \/ Return(p)

InitSeq == Fresh /\ budget = MaxSeqCalls

SpecSeq == InitSeq /\ [][NextSeq]_vars

\* Nothing but create calls, from every caller at once, into a schema that has
\* never held a table.
NextCreate ==
    \E p \in Clients :
        \/ CreateNew(p)
        \/ CreateTableBegin(p)
        \/ CreateTableCommit(p)
        \/ Retry(p)

\* One call from each caller.
InitCreate == Fresh /\ budget = NumClients

SpecCreate == InitCreate /\ [][NextCreate]_vars

\* The reading and writing calls over a store that may also reject any of their
\* statements with a code of its own.
InitFault ==
    /\ provider = constructor(ValidConnection)
    /\ faults = FaultCodes
    /\ tables = [c \in Collections |-> NoTable]
    /\ pc = [p \in Clients |-> "idle"]
    /\ call = [p \in Clients |-> NoCall]
    /\ result = [p \in Clients |-> NoResult]
    /\ frame = [p \in Clients |-> NoFrame]
    /\ nextUuid = 0
    /\ budget = MaxCalls

NextFault ==
    \E p \in Procs :
        \/ GetAll(p)
        \/ Get(p)
        \/ Create(p)
        \/ Update(p)
        \/ CreateTableBegin(p)
        \/ CreateTableCommit(p)
        \/ Retry(p)
        \/ Delete(p)

SpecFault == InitFault /\ [][NextFault]_vars

\* getUserData over a schema holding any of the bounded group, role and
\* permission collections.
GroupRow(g, members, roles) ==
    [_id |-> g, json |-> [_id |-> g, name |-> g, members |-> members, roles |-> roles]]
RoleRow(r, users, permissions) ==
    [_id |-> r, json |-> [_id |-> r, name |-> r, users |-> users, permissions |-> permissions]]
PermissionRow(q) == [_id |-> q, json |-> [_id |-> q, name |-> q]]

GroupTables ==
    {NoTable} \cup
    {[exists |-> TRUE, dropped |-> FALSE, rows |-> <<GroupRow(1, m1, r1), GroupRow(2, m2, r2)>>] :
        m1 \in UserLists, r1 \in IdLists, m2 \in UserLists, r2 \in IdLists}
RoleTables ==
    {NoTable} \cup
    {[exists |-> TRUE, dropped |-> FALSE, rows |-> <<RoleRow(1, u1, q1)>> \o rest] :
        u1 \in UserLists, q1 \in IdLists,
        rest \in {<<>>} \cup {<<RoleRow(2, u2, q2)>> : u2 \in UserLists, q2 \in IdLists}}
PermissionTables ==
    {NoTable} \cup
    {[exists |-> TRUE, dropped |-> FALSE, rows |-> rows] :
        rows \in {<<>>, <<PermissionRow(1)>>, <<PermissionRow(1), PermissionRow(2)>>}}

InitUserData ==
    /\ provider = constructor(ValidConnection)
    /\ faults = {}
    /\ tables \in {[groups |-> g, roles |-> r, permissions |-> q] :
                      g \in GroupTables, r \in RoleTables, q \in PermissionTables}
    /\ pc = [p \in Clients |-> "idle"]
    /\ call = [p \in Clients |-> NoCall]
    /\ result = [p \in Clients |-> NoResult]
    /\ frame = [p \in Clients |-> NoFrame]
    /\ nextUuid = 0
    /\ budget = 1

NextUserData ==
    \E p \in SeqProcs :
        \/ GetUserData(p)
        \/ UserRoles(p)
        \/ UserPermissions(p)

SpecUserData == InitUserData /\ [][NextUserData]_vars

\* new PostgresRecordProvider(connectionString), over the values a caller may pass.
InitConstruct ==
    /\ provider \in {[connectionString |-> v, pool |-> FALSE, error |-> "new"] :
                        v \in ConnectionValues}
    /\ faults = {}
    /\ tables = [c \in Collections |-> NoTable]
    /\ pc = [p \in Clients |-> "idle"]
    /\ call = [p \in Clients |-> NoCall]
    /\ result = [p \in Clients |-> NoResult]
    /\ frame = [p \in Clients |-> NoFrame]
    /\ nextUuid = 0
    /\ budget = 0

Construct ==
    /\ provider.error = "new"
    /\ provider' = constructor(provider.connectionString)
    /\ UNCHANGED <<faults, tables, pc, call, result, frame, nextUuid, budget>>

NextConstruct == Construct

SpecConstruct == InitConstruct /\ [][NextConstruct]_vars

\* ================================================================= claims
Started(p) == pc[p] = "idle" /\ pc'[p] = "done"
Finished(p) == pc[p] # "done" /\ pc'[p] = "done"
Count(seq, x) == Cardinality({i \in DOMAIN seq : seq[i] = x})
Stored(t, c, id) == Matching(t[c].rows, id) # {}

\* C1: every create of a race of creates into a never-provisioned collection ends
\* with success or a validation (or not-found) error, never with the store's raw
\* missing-table error, whatever the interleaving of the inserts, the CREATE
\* TABLEs and the retries.
C1_NoRawMissingTable ==
    \A p \in Clients :
        pc[p] = "done" =>
            /\ result[p].kind \in {"ok", "ValidationError", "NotFoundError"}
            /\ result[p].code # MissingTable

\* Two creators both found the table missing; one created it, the other's CREATE
\* TABLE lost the race, was swallowed, and both inserts went in.
C1_RaceSettled ==
    \E p, q \in Clients :
        /\ p # q
        /\ pc[p] = "done" /\ pc[q] = "done"
        /\ call[p].c = NewCollection /\ call[q].c = NewCollection
        /\ call[p].creates = 1 /\ ~call[p].swallowed /\ result[p].kind = "ok"
        /\ call[q].creates = 1 /\ call[q].swallowed /\ result[q].kind = "ok"
        /\ Len(tables[NewCollection].rows) = 2

\* C2: on a collection whose table does not exist, getAll returns the empty
\* sequence and get raises not-found, for every identifier; neither hands the
\* missing-table error to the caller.
C2_ReadsOfMissingTable ==
    [][\A p \in Procs :
          (/\ Started(p)
           /\ call'[p].op \in {"getAll", "get"}
           /\ ~tables[call'[p].c].exists)
          => result'[p] = IF call'[p].op = "getAll" THEN Returned(<<>>) ELSE NotFoundError
      ]_vars

C2_BothReadsAnswered ==
    \E p, q \in Procs :
        /\ pc[p] = "done" /\ call[p].op = "getAll" /\ result[p] = Returned(<<>>)
        /\ ~tables[call[p].c].exists /\ ~tables[call[p].c].dropped
        /\ pc[q] = "done" /\ call[q].op = "get" /\ result[q] = NotFoundError
        /\ ~tables[call[q].c].exists /\ ~tables[call[q].c].dropped

\* C3: delete of an identifier that is not stored raises nothing and leaves the
\* store as it was, whether the collection's table exists or was never created.
C3_DeleteOfAbsentIsSilent ==
    [][\A p \in Procs :
          (/\ Started(p)
           /\ call'[p].op = "delete"
           /\ ~Stored(tables, call'[p].c, call'[p].id))
          => (result'[p].kind = "ok" /\ tables' = tables)
      ]_vars

\* C4: a create whose identifier is already stored in the collection raises the
\* validation error, not the store's 23505, and the collection keeps exactly one
\* record at that identifier, the one it held.
C4_DuplicateCreate ==
    [][\A p \in Procs :
          (/\ Finished(p)
           /\ pc[p] \in {"idle", "retry"}
           /\ call'[p].op = "create"
           /\ Stored(tables, call'[p].c, call'[p].id))
          => /\ result'[p] = ValidationError
             /\ tables' = tables
             /\ Cardinality(Matching(tables'[call'[p].c].rows, call'[p].id)) = 1
      ]_vars

C4_SecondCreateRejected ==
    \E p \in Procs :
        /\ pc[p] = "done" /\ call[p].op = "create" /\ result[p] = ValidationError
        /\ \E i \in DOMAIN tables[call[p].c].rows :
              /\ Matching(tables[call[p].c].rows, call[p].id) = {i}
              /\ tables[call[p].c].rows[i].json.val # call[p].rec.val

\* C5: update without upsert of an identifier that is not stored raises not-found
\* and changes nothing, whether the table exists or not; a table that was absent
\* is absent afterwards.
C5_UpdateOfAbsent ==
    [][\A p \in Procs :
          (/\ Started(p)
           /\ call'[p].op = "update" /\ ~call'[p].upsert
           /\ ~Stored(tables, call'[p].c, call'[p].id))
          => (result'[p] = NotFoundError /\ tables' = tables)
      ]_vars

C5_NotFoundInExistingTable ==
    \E p \in Procs :
        /\ pc[p] = "done" /\ call[p].op = "update" /\ ~call[p].upsert
        /\ result[p] = NotFoundError
        /\ tables[call[p].c].exists
        /\ tables[call[p].c].rows # <<>>
        /\ ~Stored(tables, call[p].c, call[p].id)

\* C6: update with upsert of an identifier that is not stored adds the record and
\* the collection grows by exactly one; of a stored identifier it replaces that
\* record's document and the collection keeps its size; on a collection without a
\* table it provisions the table and then stores the record.  (One caller.)
C6_Upsert ==
    [][\A p \in SeqProcs :
          (Finished(p) /\ call'[p].op = "update" /\ call'[p].upsert)
          => LET c == call'[p].c
                 id == call'[p].id
                 before == tables[c].rows
                 after == tables'[c].rows
             IN  /\ result'[p] = Returned(<<call'[p].rec>>)
                 /\ call'[p].rec._id = id
                 /\ tables'[c].exists
                 /\ getOutcome(tables', c, id) = Returned(<<call'[p].rec>>)
                 /\ Len(after) = IF Stored(tables, c, id) THEN Len(before)
                                 ELSE Len(before) + 1
                 /\ \A i \in DOMAIN before : before[i]._id # id => after[i] = before[i]
      ]_vars

\* The upsert replaced the first of two records where it stood.
C6_ReplacedInPlace ==
    \E p \in SeqProcs :
        /\ pc[p] = "done" /\ call[p].op = "update" /\ call[p].upsert
        /\ result[p].kind = "ok" /\ call[p].queries = 1
        /\ Len(tables[call[p].c].rows) = 2
        /\ tables[call[p].c].rows[1]._id = call[p].id
        /\ tables[call[p].c].rows[1].json = call[p].rec

\* C7: a create that succeeds returns the document it was given with its _id
\* populated (a fresh one when it had none), and a get of that identifier issued
\* right after it returns an equal document, the table provisioned before or not.
C7_CreateThenGet ==
    [][\A p \in Procs :
          (Finished(p) /\ call'[p].op = "create" /\ result'[p].kind = "ok")
          => LET d == call'[p].arg
                 r == result'[p].value[1]
             IN  /\ ~LacksId(r)
                 /\ r = IF LacksId(d) THEN WithId(d, r._id) ELSE d
                 /\ getOutcome(tables', call'[p].c, r._id) = Returned(<<r>>)
      ]_vars

C7_AssignedIdRoundTrip ==
    \E p \in Procs :
        /\ pc[p] = "done" /\ call[p].op = "create" /\ result[p].kind = "ok"
        /\ LacksId(call[p].arg)
        /\ call[p].creates = 1
        /\ getOutcome(tables, call[p].c, result[p].value[1]._id) = Returned(result[p].value)

\* C8: getUserData of a user who is a member of two groups that both list the
\* same role.
InBothGroups(userId, r) ==
    /\ tables["groups"].exists /\ tables["roles"].exists /\ tables["permissions"].exists
    /\ \A i \in DOMAIN tables["groups"].rows :
          /\ Contains(tables["groups"].rows[i].json, "members", userId)
          /\ IsAny(r, tables["groups"].rows[i].json.roles)
    /\ Stored(tables, "roles", r)

RoleDoc(r) ==
    LET i == CHOOSE i \in DOMAIN tables["roles"].rows : tables["roles"].rows[i]._id = r
    IN  tables["roles"].rows[i].json

UserDataOf(p) == result[p].value[1]

UserDataReturned(p) ==
    pc[p] = "done" /\ call[p].op = "getUserData" /\ result[p].kind = "ok"

\* C8 as stated: the role's name comes back twice, once for each group that lists
\* it (each group listing it once, the user not among the role's own users), and
\* with it the names of the permissions the role lists.
C8_RoleNameTwice ==
    \A p \in SeqProcs, r \in {1, 2} :
        (/\ UserDataReturned(p)
         /\ InBothGroups(call[p].id, r)
         /\ \A i \in DOMAIN tables["groups"].rows :
               Count(tables["groups"].rows[i].json.roles, r) = 1
         /\ ~Contains(RoleDoc(r), "users", call[p].id))
        => Count(UserDataOf(p).roles, RoleDoc(r).name) = 2

\* C8, amended: the role's row is selected once however many groups list it, so
\* its name comes back once; every permission document the role lists is named.
C8_RoleNameOnce ==
    \A p \in SeqProcs, r \in {1, 2} :
        (UserDataReturned(p) /\ InBothGroups(call[p].id, r))
        => /\ Count(UserDataOf(p).roles, RoleDoc(r).name) = 1
           /\ \A q \in {1, 2} :
                 (IsAny(q, RoleDoc(r).permissions) /\ Stored(tables, "permissions", q))
                 => Count(UserDataOf(p).permissions, q) = 1

C8_SharedRoleReturned ==
    \E p \in SeqProcs :
        /\ UserDataReturned(p)
        /\ InBothGroups(call[p].id, 1)
        /\ RoleDoc(1).permissions = <<1, 2>>
        /\ UserDataOf(p).roles = <<1>>
        /\ UserDataOf(p).permissions = <<1, 2>>
        /\ Len(UserDataOf(p).groups) = 2

\* C9: deleteAll leaves no table in the schema, so that getAll of any collection
\* returns the empty sequence; the write that next provisions a collection's table
\* succeeds and stores its record.  (One caller.)
C9_DeleteAll ==
    [][\A p \in SeqProcs :
          /\ (Started(p) /\ call'[p].op = "deleteAll")
             => /\ result'[p].kind = "ok"
                /\ \A c \in Collections :
                      /\ ~tables'[c].exists
                      /\ getAllOutcome(tables', c) = Returned(<<>>)
          /\ (Finished(p) /\ call'[p].op \in {"create", "update"} /\ call'[p].creates = 1)
             => /\ result'[p] = Returned(<<call'[p].rec>>)
                /\ tables'[call'[p].c].exists
                /\ getOutcome(tables', call'[p].c, call'[p].id) = Returned(<<call'[p].rec>>)
      ]_vars

\* A collection that deleteAll dropped holds a record again.
C9_Reprovisioned ==
    \E p \in SeqProcs :
        /\ pc[p] = "done" /\ call[p].op = "create" /\ result[p].kind = "ok"
        /\ call[p].creates = 1 /\ call[p].queries = 2
        /\ tables[call[p].c].dropped
        /\ tables[call[p].c].exists
        /\ Len(tables[call[p].c].rows) = 1

\* C10: in every reachable state, whatever the interleaving of creates, updates,
\* deletes and deleteAlls, no collection holds two records with one identifier.
C10_UniqueIdentifier ==
    \A c \in Collections :
        \A i, j \in DOMAIN tables[c].rows :
            tables[c].rows[i]._id = tables[c].rows[j]._id => i = j

\* A create and an upsert of one identifier in one collection both succeeded, and
\* the collection holds one record.
C10_CreateAndUpsertShareRecord ==
    \E p, q \in Procs :
        /\ pc[p] = "done" /\ call[p].op = "create" /\ result[p].kind = "ok"
        /\ pc[q] = "done" /\ call[q].op = "update" /\ call[q].upsert
        /\ result[q].kind = "ok"
        /\ call[p].c = call[q].c /\ call[p].id = call[q].id
        /\ Len(tables[call[p].c].rows) = 1

\* C11: constructing with a connection string that is null, undefined, empty or
\* not a string throws the argument error and creates no pool.
Unusable(v) == v.type \in {"null", "undefined"} \/ v.type # "string" \/ v.value = <<>>

C11_RejectsUnusableConnection ==
    (provider.error # "new" /\ Unusable(provider.connectionString))
    => (provider.error = "ArgumentError" /\ ~provider.pool)

\* The store rejected the call's re-issued statement with this code.
RetryRejected(cl, code) ==
    \E i \in 2..Len(cl.rejected) : cl.rejected[i] = <<"query", code>>

\* C12: within one create or upserting update, CREATE TABLE is issued at most once
\* and the statement at most twice; after the re-issue the call has settled with
\* the re-issue's own outcome, so a missing table met again reaches the caller as
\* the store's 42P01 and nothing is provisioned a second time.
C12_ProvisionedAtMostOnce ==
    \A p \in Procs :
        /\ call[p].creates <= 1
        /\ call[p].queries <= 2
        /\ call[p].queries = 2 => (pc[p] = "done" /\ call[p].creates = 1)
        /\ RetryRejected(call[p], MissingTable)
              => result[p] = Thrown(QErr(MissingTable))

\* A create whose table a deleteAll dropped between CREATE TABLE and the re-issue.
C12_DroppedBeforeReissue ==
    \E p \in Procs :
        /\ pc[p] = "done" /\ call[p].op = "create"
        /\ call[p].queries = 2 /\ call[p].creates = 1
        /\ RetryRejected(call[p], MissingTable)
        /\ result[p].kind = "raw" /\ result[p].code = MissingTable
        /\ \E q \in Procs : q # p /\ call[q].op = "deleteAll"

\* The store rejected the call's CREATE TABLE with this code.
CreateTableRejected(cl, code) ==
    \E i \in DOMAIN cl.rejected : cl.rejected[i] = <<"createTable", code>>

\* C13: a CREATE TABLE rejected with 23505 is swallowed and the statement is
\* issued again; a CREATE TABLE rejected with any other code ends the call with
\* that rejection, the statement issued only the once.
C13_CreateTableRejection ==
    \A p \in Procs :
        /\ CreateTableRejected(call[p], UniqueViolation)
              => /\ call[p].swallowed
                 /\ pc[p] \in {"retry", "done"}
                 /\ pc[p] = "done" => call[p].queries = 2
        /\ \A code \in OtherCodes :
              CreateTableRejected(call[p], code)
                 => /\ ~call[p].swallowed
                    /\ pc[p] = "done"
                    /\ result[p] = Thrown(QErr(code))
                    /\ call[p].queries = 1

\* One call's CREATE TABLE was rejected with another code and the call is over,
\* while the other call has met the missing table.
C13_OtherCodePropagated ==
    \E p \in Procs, code \in OtherCodes :
        /\ CreateTableRejected(call[p], code)
        /\ pc[p] = "done" /\ result[p].kind = "raw" /\ call[p].queries = 1
        /\ \E q \in Procs : q # p /\ call[q].queries >= 1

\* A lost creation race, swallowed, and the insert issued again.
C13_SwallowedAndReissued ==
    \E p \in Procs :
        /\ CreateTableRejected(call[p], UniqueViolation)
        /\ pc[p] = "done" /\ call[p].queries = 2 /\ result[p].kind = "ok"

\* The call is a create or an upserting update whose first statement the store
\* rejected with 42P01.
MetMissingTable(cl) ==
    /\ cl.op = "create" \/ (cl.op = "update" /\ cl.upsert)
    /\ cl.rejected # <<>>
    /\ cl.rejected[1] = <<"query", MissingTable>>

\* C14: a table comes into being only in the CREATE TABLE of a create or an
\* upserting update whose first statement failed with 42P01, and no other call
\* ever issues a CREATE TABLE: not getAll, get, a plain update, delete or
\* getUserData, and not a create or upsert whose first statement succeeded or
\* failed with another code.
C14_OnlyProvisioningCreates ==
    [][/\ \A c \in DOMAIN tables :
             (~tables[c].exists /\ tables'[c].exists)
                => \E p \in Clients :
                      /\ pc[p] = "creating" /\ pc'[p] = "retry"
                      /\ call[p].c = c /\ MetMissingTable(call[p])
       /\ \A p \in Clients :
             (call'[p].creates > 0 \/ pc'[p] \in {"createTable", "creating", "retry"})
                => MetMissingTable(call'[p])]_vars

\* An upserting update has made the table, next to a create that the store
\* rejected with another code and that provisioned nothing.
C14_UpsertProvisioned ==
    \E p, q \in Procs :
        /\ call[p].op = "update" /\ call[p].upsert /\ pc[p] = "retry"
        /\ call[p].creates = 1 /\ ~call[p].swallowed /\ tables[call[p].c].exists
        /\ call[q].op = "create" /\ pc[q] = "done" /\ call[q].creates = 0
        /\ \E code \in OtherCodes : call[q].rejected = <<(<<"query", code>>)>>

\* C15: in every reachable state each stored document carries, as its _id member,
\* the identifier its row is keyed under: the one update was called with,
\* whatever the payload said, or the one create found or assigned.
C15_DocumentCarriesItsKey ==
    \A c \in Collections :
        \A i \in DOMAIN tables[c].rows :
            LET row == tables[c].rows[i]
            IN  "_id" \in DOMAIN row.json /\ row.json._id = row._id

\* Stored side by side: a document create assigned an identifier to, and one an
\* upserting update keyed under an identifier its payload did not carry.
C15_AssignedAndOverwritten ==
    \E p, q \in Procs :
        /\ pc[p] = "done" /\ call[p].op = "create" /\ result[p].kind = "ok"
        /\ LacksId(call[p].arg) /\ Stored(tables, call[p].c, call[p].rec._id)
        /\ pc[q] = "done" /\ call[q].op = "update" /\ result[q].kind = "ok"
        /\ "_id" \in DOMAIN call[q].arg /\ call[q].arg._id # call[q].id
        /\ Stored(tables, call[q].c, call[q].id)

\* The caller is owed this rejection of a statement as it is: any code but 42P01,
\* and but 23505 in a create.
Foreign(op, code) ==
    code \in OtherCodes \/ (code = UniqueViolation /\ op # "create")

\* C16: when the store rejects the statement of a getAll, get, create or update
\* with a code that is neither 42P01 nor, in a create, 23505, that rejection is
\* the call's outcome, code and all: nothing is issued after it, and when it
\* was the first statement no CREATE TABLE and no re-issue follow.
C16_ForeignRejectionPropagated ==
    \A p \in Procs :
        call[p].op \in {"getAll", "get", "create", "update"}
           => \A i \in DOMAIN call[p].rejected :
                 LET code == call[p].rejected[i][2]
                 IN  (call[p].rejected[i][1] = "query" /\ Foreign(call[p].op, code))
                        => /\ i = Len(call[p].rejected)
                           /\ pc[p] = "done"
                           /\ result[p] = Thrown(QErr(code))
                           /\ i = 1 => (call[p].creates = 0 /\ call[p].queries <= 1)

\* A plain update rejected with 23505 and a create rejected with another code,
\* both over, each with the store's rejection as its outcome.
C16_BothRejectionsRaw ==
    \E p, q \in Procs, code \in OtherCodes :
        /\ pc[p] = "done" /\ call[p].op = "update" /\ ~call[p].upsert
        /\ call[p].rejected = <<(<<"query", UniqueViolation>>)>>
        /\ result[p].kind = "raw" /\ result[p].code = UniqueViolation
        /\ pc[q] = "done" /\ call[q].op = "create"
        /\ call[q].rejected = <<(<<"query", code>>)>>
        /\ result[q].kind = "raw" /\ result[q].code = code /\ call[q].creates = 0

\* The role documents the user holds: directly, as one of the role's users, or
\* through a group the user is a member of that lists the role.
RolesOf(userId) ==
    {tables["roles"].rows[i].json : i \in
        {i \in DOMAIN tables["roles"].rows :
            LET r == tables["roles"].rows[i]
            IN  \/ Contains(r.json, "users", userId)
                \/ \E j \in DOMAIN tables["groups"].rows :
                      /\ Contains(tables["groups"].rows[j].json, "members", userId)
                      /\ IsAny(r._id, tables["groups"].rows[j].json.roles)}}

\* C17: the roles getUserData(u) returns are the names of exactly the roles that
\* list u among their users or are listed by a group u is a member of, and every
\* permission it returns is the name of a permission listed by one of those
\* roles.
C17_UserDataIsExact ==
    \A p \in SeqProcs :
        UserDataReturned(p)
           => /\ {UserDataOf(p).roles[i] : i \in DOMAIN UserDataOf(p).roles}
                    = {r.name : r \in RolesOf(call[p].id)}
              /\ \A i \in DOMAIN UserDataOf(p).permissions :
                    \E j \in DOMAIN tables["permissions"].rows, r \in RolesOf(call[p].id) :
                       /\ tables["permissions"].rows[j].json.name = UserDataOf(p).permissions[i]
                       /\ IsAny(tables["permissions"].rows[j]._id, r.permissions)

\* Role 1 held through a group only and returned with its permission 1, while
\* role 2 and its permission 2, held by neither path, stay out of the answer.
C17_UnheldRoleLeftOut ==
    \E p \in SeqProcs :
        /\ UserDataReturned(p)
        /\ Stored(tables, "roles", 2) /\ Stored(tables, "permissions", 2)
        /\ ~Contains(RoleDoc(1), "users", call[p].id)
        /\ RoleDoc(2).permissions = <<2>>
        /\ UserDataOf(p).roles = <<1>>
        /\ UserDataOf(p).permissions = <<1>>

\* p and q are the only callers that created a record under this identifier,
\* both passed it in, and both calls are over.
OnlyCreators(p, q, id) ==
    /\ p # q
    /\ \A r \in {p, q} :
          /\ pc[r] = "done" /\ call[r].op = "create" /\ call[r].c = NewCollection
          /\ ~LacksId(call[r].arg) /\ call[r].rec._id = id
    /\ \A r \in Clients \ {p, q} :
          call[r].op = "create" => (pc[r] = "done" /\ call[r].rec._id # id)

\* C18: of two concurrent creates of the same explicit identifier into a
\* collection never provisioned, exactly one returns its record and the other
\* raises the validation error, and the collection holds exactly one record
\* under the identifier, whatever the interleaving.
C18_OneOfTwoCreatesWins ==
    \A p, q \in Clients, id \in ExplicitIds :
        OnlyCreators(p, q, id)
           => /\ \/ (result[p].kind = "ok" /\ result[q] = ValidationError)
                 \/ (result[q].kind = "ok" /\ result[p] = ValidationError)
              /\ Cardinality(Matching(tables[NewCollection].rows, id)) = 1

\* The loser met the missing table first and learnt of the duplicate only from
\* its re-issued insert.
C18_DuplicateFoundOnReissue ==
    \E p, q \in Clients, id \in ExplicitIds :
        /\ OnlyCreators(p, q, id)
        /\ result[p].kind = "ok" /\ call[p].queries = 2
        /\ result[q] = ValidationError /\ call[q].queries = 2
        /\ call[q].rejected[Len(call[q].rejected)] = <<"query", UniqueViolation>>

\* The collections whose table this step changed, in existence or in content.
Changed == {c \in Collections : tables'[c] # tables[c]}

\* C19: a step of a create, update or delete on a collection, the CREATE TABLE
\* and the re-issue of its provisioning included, changes no other collection's
\* table; only a deleteAll changes more than one table.
C19_OtherCollectionsUntouched ==
    [][/\ \A p \in Procs :
             (pc'[p] # pc[p] /\ call'[p].op \in {"create", "update", "delete"})
                => Changed \subseteq {call'[p].c}
       /\ Cardinality(Changed) > 1
             => \E p \in Procs : pc[p] = "idle" /\ call'[p].op = "deleteAll"]_vars

\* A create has just provisioned c1 and is about to re-issue its insert, while
\* c2 holds the record an earlier call stored there.
C19_ProvisionedBesideAnother ==
    \E p \in Procs :
        /\ pc[p] = "retry" /\ call[p].op = "create" /\ call[p].c = "c1"
        /\ call[p].creates = 1 /\ ~call[p].swallowed
        /\ tables["c1"].exists /\ tables["c1"].rows = <<>>
        /\ tables["c2"].exists /\ tables["c2"].rows # <<>>

\* A deleteAll has dropped the tables of both collections at once.
C19_BothDropped ==
    \E p \in Procs :
        /\ pc[p] = "done" /\ call[p].op = "deleteAll"
        /\ \A c \in Collections : tables[c].dropped /\ ~tables[c].exists

=============================================================================
